---------------------------- MODULE Spec2Model ----------------------------
(***************************************************************************)
(* Model of redactor's Redis actor (src/src/redis_actor.rs).               *)
(*                                                                         *)
(* A RedisActorBuilder carries a RedisConfig through its setters; start()  *)
(* opens a redis::Client on the configured URI and starts the actor, which *)
(* keeps the client and nothing else.  The actor's two handlers (Cmd and   *)
(* Pipe) each return a ResponseFuture: get_async_connection(), then        *)
(* query_async() on the connection, then the value, every error mapped     *)
(* through Error::from.  The futures run on the arbiter independently of   *)
(* each other, so the calls in flight interleave at every await point.     *)
(*                                                                         *)
(* The environment is the Redis server (a one-key store that serves one    *)
(* command at a time), the network (a connection attempt or a query may    *)
(* fail) and the passage of time.                                          *)
(***************************************************************************)
EXTENDS Integers, Sequences, FiniteSets

(***************************************************************************)
(* Bounds of the model.                                                    *)
(***************************************************************************)
\* Concurrent calls the callers keep in flight (slots are reused).
NumCalls == 2
\* Longest pipeline a caller builds.
MaxBatch == 2
\* Largest duration (in ticks) given to exponential_backoff.
MaxDur == 2
\* Largest count given to errors_threshold.
MaxThreshold == 1

CallIds == 1..NumCalls
Durations == 0..MaxDur
Thresholds == 0..MaxThreshold

(***************************************************************************)
(* Values of the environment.                                              *)
(***************************************************************************)
\* RedisConfig::default's redis_uri.
DefaultUri == "redis://127.0.0.1:6379"
\* Arguments given to set_uri: another well-formed address, and a string
\* that redis::Client::open refuses.
OtherUri == "redis://10.0.0.2:6379/1"
BadUri == "not-a-redis-address"
Uris == {DefaultUri, OtherUri, BadUri}

\* Commands the callers build with redis::cmd: PING, and two commands on one
\* key whose replies depend on the store (SETNX k v, DEL k).
Commands == {"PING", "SETNX", "DEL"}

RECURSIVE SeqsUpTo(_, _)
SeqsUpTo(S, n) ==
    IF n = 0 THEN {<<>>}
    ELSE LET shorter == SeqsUpTo(S, n - 1)
         IN  shorter \cup {Append(s, x) : s \in {t \in shorter : Len(t) = n - 1}, x \in S}

\* Pipelines the callers build with redis::pipe().cmd(..)..., the empty one
\* included.
Pipelines == SeqsUpTo(Commands, MaxBatch)

\* Failures of the redis crate, as (kind, description) of the RedisError.
\* A connection attempt is refused or times out; a query is rejected by the
\* server or its socket read times out.
ConnErrors ==
    { [kind |-> "IoError", description |-> "connection refused"],
      [kind |-> "IoError", description |-> "timed out"] }
ExecErrors ==
    { [kind |-> "ResponseError", description |-> "An error was signalled by the server"],
      [kind |-> "IoError", description |-> "timed out"] }
NoError == [kind |-> "none", description |-> ""]

VARIABLES
    cfg,        \* the RedisConfig inside the RedisActorBuilder (kept after start
                \* as the record of what the actor was built from)
    phase,      \* "building", "started" (start returned Ok(addr)), "failed" (Err)
    client,     \* RedisActor.client: the address the client was opened on, or "none"
    call,       \* per call slot: the message, the future's position, the reply
    store,      \* the Redis server: whether the key exists
    open,       \* the connections open between the actor's futures and the server
    probes,     \* connection attempts made by start()
    failures,   \* observer: consecutive failure events (saturating)
    sinceFail,  \* observer: ticks since the latest failure event
    trialFailed,\* observer: the latest failure was of a call admitted after the
                \* longest cooldown had passed
    burst,      \* observer: the consecutive failures, two or more, were all of
                \* calls that were pending together before the first of them
    ref         \* a second dispatcher, built on the same address with the
                \* default resilience settings, sent the same messages and
                \* given the same answers by the network and the server

vars == <<cfg, phase, client, call, store, open, probes, failures, sinceFail, trialFailed,
          burst, ref>>
obs == <<failures, sinceFail, trialFailed, burst>>

(***************************************************************************)
(* RedisConfig and the builder.                                            *)
(***************************************************************************)
RedisConfigDefault ==
    [ use_breaker |-> FALSE,
      exponential_backoff |-> <<0, 0>>,
      errors_threshold |-> 0,
      connection_probe |-> FALSE,
      redis_uri |-> DefaultUri ]

backoff_min == cfg.exponential_backoff[1]
backoff_max == cfg.exponential_backoff[2]

\* Client::open takes any string.
ClientOpenAny(uri) == TRUE

\* redis::Client::open(uri): Ok for a well-formed redis:// address.
ClientOpen(uri) == uri \in {DefaultUri, OtherUri}

\* start() asks for a first connection when connection_probe is set, and
\* the store does not answer.
StartResultProbing(config) ==
    IF ClientOpen(config.redis_uri) /\ ~config.connection_probe
      THEN [phase |-> "started", client |-> config.redis_uri]
      ELSE [phase |-> "failed", client |-> "none"]

\* start()'s result for a builder holding config: Client::open(uri)? is the
\* only thing that can fail, and the actor is RedisActor { client }.
StartResult(config) ==
    IF ClientOpen(config.redis_uri)
      THEN [phase |-> "started", client |-> config.redis_uri]
      ELSE [phase |-> "failed", client |-> "none"]

\* The second builder: set_uri and start, as below, on its own state r.
RefSetUri(r, arg) ==
    IF r.phase = "building" THEN [r EXCEPT !.cfg.redis_uri = arg] ELSE r

RefStart(r) ==
    IF r.phase = "building"
      THEN [r EXCEPT !.phase = StartResult(r.cfg).phase,
                     !.client = StartResult(r.cfg).client]
      ELSE r

use_breaker ==
    /\ phase = "building"
    /\ cfg' = [cfg EXCEPT !.use_breaker = TRUE]
    /\ UNCHANGED <<phase, client, call, store, open, probes, obs, ref>>

exponential_backoff(min, max) ==
    /\ phase = "building"
    /\ cfg' = [cfg EXCEPT !.exponential_backoff = <<min, max>>]
    /\ UNCHANGED <<phase, client, call, store, open, probes, obs, ref>>

errors_threshold(count) ==
    /\ phase = "building"
    /\ cfg' = [cfg EXCEPT !.errors_threshold = count]
    /\ UNCHANGED <<phase, client, call, store, open, probes, obs, ref>>

use_connection_probe ==
    /\ phase = "building"
    /\ cfg' = [cfg EXCEPT !.connection_probe = TRUE]
    /\ UNCHANGED <<phase, client, call, store, open, probes, obs, ref>>

set_uri(arg) ==
    /\ phase = "building"
    /\ cfg' = [cfg EXCEPT !.redis_uri = arg]
    /\ ref' = RefSetUri(ref, arg)
    /\ UNCHANGED <<phase, client, call, store, open, probes, obs>>

\* start(self): Client::open(uri)? and then actor.start().  Nothing else of
\* the configuration is read, and no connection is made.
start ==
    /\ phase = "building"
    /\ phase' = StartResult(cfg).phase
    /\ client' = StartResult(cfg).client
    /\ ref' = RefStart(ref)
    /\ UNCHANGED <<cfg, call, store, open, probes, obs>>


(***************************************************************************)
(* Observer of the calls' outcomes.  The code keeps no failure counter and *)
(* reads no clock; these variables only record what happened, so that the  *)
(* breaker properties can be stated over the runs of the code.             *)
(* A success event is a successful connection acquisition or a successful  *)
(* query; a failure event is a failed acquisition or a failed query.       *)
(* Failures are counted for a builder on which use_breaker was called or a *)
(* threshold of at least one was set; the age of the latest failure is     *)
(* kept only while                                                         *)
(* built configuration enables the breaker and the threshold is reached.   *)
(* A call that fails having been submitted when the count was zero was     *)
(* pending before the first failure of the run of failures it adds to, so  *)
(* it failed concurrently with the calls that failed before it.            *)
(***************************************************************************)
Min(a, b) == IF a <= b THEN a ELSE b

\* The breaker is enabled with a threshold that failures can reach and
\* backoff bounds in order.
BreakerOn ==
    /\ cfg.use_breaker
    /\ cfg.errors_threshold >= 1
    /\ backoff_min <= backoff_max

\* What a call sees of the observer when it is submitted.
Snapshot ==
    [failures |-> failures, sinceFail |-> sinceFail, trialFailed |-> trialFailed]
NoSnapshot == [failures |-> 0, sinceFail |-> 0, trialFailed |-> FALSE]

\* The threshold was reached by consecutive failures.
Tripped(s) == BreakerOn /\ s.failures >= cfg.errors_threshold
\* The latest failure is the one that reached the threshold, and less than
\* the shortest cooldown has passed since.
CooldownRunning(s) ==
    /\ Tripped(s)
    /\ s.failures = cfg.errors_threshold
    /\ s.sinceFail < backoff_min
\* Tripped, and the longest cooldown has passed since the latest failure.
CooldownElapsed(s) == Tripped(s) /\ s.sinceFail >= backoff_max

ObsSuccess ==
    /\ failures' = 0
    /\ sinceFail' = 0
    /\ trialFailed' = FALSE
    /\ burst' = FALSE

ObsFailure(c) ==
    /\ failures' = IF cfg.use_breaker \/ cfg.errors_threshold >= 1
                     THEN Min(failures + 1, MaxThreshold + 1)
                     ELSE 0
    /\ sinceFail' = 0
    /\ trialFailed' = CooldownElapsed(call[c].seen)
    /\ burst' = /\ cfg.errors_threshold >= 1
                /\ failures >= 1
                /\ call[c].seen.failures = 0
                /\ failures = 1 \/ burst

(***************************************************************************)
(* The Redis server: one key, one command at a time.                       *)
(***************************************************************************)
\* The server's reply to cmd when the key exists (has) or not.
StoreReply(has, cmd) ==
    CASE cmd = "PING"  -> "PONG"
      [] cmd = "SETNX" -> IF has THEN ":0" ELSE ":1"
      [] cmd = "DEL"   -> IF has THEN ":1" ELSE ":0"

StoreNext(has, cmd) ==
    CASE cmd = "PING"  -> has
      [] cmd = "SETNX" -> TRUE
      [] cmd = "DEL"   -> FALSE

(***************************************************************************)
(* Messages, replies and the Error type.                                   *)
(***************************************************************************)
\* impl From<E: error::Error> for Error: Error(err.description().to_string()).
\* The Error keeps the description and nothing else of the failure.
ErrorFrom(e) == e.description

\* Pipe::line(rpipe): Pipe(rpipe.clone()), a copy of the caller's pipeline.
PipeLine(rpipe) == rpipe

NoReply == [ok |-> FALSE, bulk |-> FALSE, items |-> <<>>, err |-> ""]

\* The failure is swallowed: the caller gets Ok with an empty value.
FailureSwallowed(e) == [ok |-> TRUE, bulk |-> FALSE, items |-> <<>>, err |-> ""]

\* Err(Error::from(e)) out of .map_err(Error::from).
Failure(e) == [ok |-> FALSE, bulk |-> FALSE, items |-> <<>>, err |-> ErrorFrom(e)]

\* The handler hands on the connection half of query_async's pair, so the
\* caller gets no value.
CmdValueDropped(served) == [ok |-> TRUE, bulk |-> FALSE, items |-> <<>>, err |-> ""]

\* Cmd: query_async's value is the server's reply to the command;
\* .and_then(|result| ok(result.1)) hands it on unchanged.
CmdValue(served) == [ok |-> TRUE, bulk |-> FALSE, items |-> <<served[1].reply>>, err |-> ""]

\* The replies collected last first.
PipeValueReversed(served) ==
    [ok |-> TRUE, bulk |-> TRUE,
     items |-> [i \in 1..Len(served) |-> served[Len(served) + 1 - i].reply], err |-> ""]

\* Pipe: query_async's value is the Bulk of the replies in the order the
\* server gave them; .and_then(|result| ok(result.1)) hands it on unchanged.
PipeValue(served) ==
    [ok |-> TRUE, bulk |-> TRUE,
     items |-> [i \in 1..Len(served) |-> served[i].reply], err |-> ""]

\* A call slot.  msg, pc, served and reply are the future's; attempts counts
\* the get_async_connection() calls made for the message, issued the
\* query_async() calls, conn is the connection the future acquired (kept
\* on record until the caller takes the reply), delivered counts the
\* replies handed to the caller, fault and failedAt record the failure
\* behind an Err, and seen is the observer's state when the message came.
Idle ==
    [ kind |-> "none", msg |-> <<>>, pc |-> "idle", served |-> <<>>,
      reply |-> NoReply, attempts |-> 0, issued |-> 0, conn |-> 0,
      delivered |-> 0,
      fault |-> NoError, failedAt |-> "none", seen |-> NoSnapshot ]

\* A breaker that trips on the failure count without looking at use_breaker.
DispatchGated(kind, msg) ==
    IF failures >= cfg.errors_threshold
      THEN [ kind |-> kind, msg |-> msg, pc |-> "done", served |-> <<>>,
             reply |-> [ok |-> FALSE, bulk |-> FALSE, items |-> <<>>, err |-> "circuit open"],
             attempts |-> 0, issued |-> 0, conn |-> 0, delivered |-> 1,
             fault |-> NoError, failedAt |-> "none", seen |-> Snapshot ]
      ELSE [ kind |-> kind, msg |-> msg, pc |-> "connecting", served |-> <<>>,
             reply |-> NoReply, attempts |-> 1, issued |-> 0, conn |-> 0,
             delivered |-> 0,
             fault |-> NoError, failedAt |-> "none", seen |-> Snapshot ]

\* An enabled breaker that turns a call away once the failures counted
\* are at least errors_threshold, a threshold of zero included.
DispatchAtThreshold(kind, msg) ==
    IF cfg.use_breaker /\ failures >= cfg.errors_threshold
      THEN [ kind |-> kind, msg |-> msg, pc |-> "done", served |-> <<>>,
             reply |-> [ok |-> FALSE, bulk |-> FALSE, items |-> <<>>, err |-> "circuit open"],
             attempts |-> 0, issued |-> 0, conn |-> 0, delivered |-> 1,
             fault |-> NoError, failedAt |-> "none", seen |-> Snapshot ]
      ELSE [ kind |-> kind, msg |-> msg, pc |-> "connecting", served |-> <<>>,
             reply |-> NoReply, attempts |-> 1, issued |-> 0, conn |-> 0,
             delivered |-> 0,
             fault |-> NoError, failedAt |-> "none", seen |-> Snapshot ]

\* handle(): the future starts with self.client.get_async_connection(),
\* whatever the configuration and whatever happened to earlier calls.
Dispatch(kind, msg) ==
    [ kind |-> kind, msg |-> msg, pc |-> "connecting", served |-> <<>>,
      reply |-> NoReply, attempts |-> 1, issued |-> 0, conn |-> 0,
      delivered |-> 0,
      fault |-> NoError, failedAt |-> "none", seen |-> Snapshot ]

(***************************************************************************)
(* Connections.  Every get_async_connection() that succeeds opens a new    *)
(* connection, named like a descriptor by the lowest number not in use.    *)
(***************************************************************************)
FreshConn(conns) ==
    CHOOSE i \in 1..(NumCalls + 1) : i \notin conns /\ \A j \in 1..(i - 1) : j \in conns

\* The connection is never closed.
ReleaseLeaked(conns, conn) == conns

\* query_async gives the connection back in result.0, and
\* .and_then(|result| ok(result.1)) drops it; on Err it is dropped with
\* the failed query.
Release(conns, conn) == conns \ {conn}

\* The query goes out on whatever connection is open, not on the one the
\* call acquired.
QueryOnAnyOpen(c) == CHOOSE i \in open : \A j \in open : i <= j

\* .and_then(move |conn| msg.0.query_async(conn)): the query goes out on
\* the connection get_async_connection() resolved to.
QueryOn(c) == call[c].conn

(***************************************************************************)
(* The second dispatcher's futures: the steps of the handlers below on its *)
(* own state r.  Its actor was built by the same start(), so it holds its  *)
(* client and nothing else; a step it cannot take leaves it as it is.      *)
(***************************************************************************)
\* What the caller and the server see of a call.
Outcome(rec) ==
    [ kind |-> rec.kind, msg |-> rec.msg, pc |-> rec.pc, served |-> rec.served,
      reply |-> rec.reply, conn |-> rec.conn ]

RefInit ==
    [ cfg |-> RedisConfigDefault, phase |-> "building", client |-> "none",
      call |-> [c \in CallIds |-> Outcome(Idle)], store |-> FALSE, open |-> {} ]

RefHandle(r, c, kind, msg) ==
    IF r.phase = "started" /\ r.call[c].pc = "idle"
      THEN [r EXCEPT !.call[c] = Outcome(Dispatch(kind, msg))]
      ELSE r

RefConnectOk(r, c) ==
    IF r.call[c].pc = "connecting"
      THEN [r EXCEPT !.call[c].pc = "querying", !.call[c].conn = FreshConn(r.open),
                     !.open = @ \cup {FreshConn(r.open)}]
      ELSE r

RefConnectFail(r, c, e) ==
    IF r.call[c].pc = "connecting"
      THEN [r EXCEPT !.call[c].pc = "done", !.call[c].reply = Failure(e)]
      ELSE r

RefStoreExec(r, c) ==
    IF r.call[c].pc = "querying" /\ Len(r.call[c].served) < Len(r.call[c].msg)
      THEN LET cmd == r.call[c].msg[Len(r.call[c].served) + 1]
           IN  [r EXCEPT !.call[c].served =
                             Append(@, [cmd |-> cmd, reply |-> StoreReply(r.store, cmd),
                                        conn |-> r.call[c].conn]),
                         !.store = StoreNext(r.store, cmd)]
      ELSE r

RefQueryOk(r, c) ==
    IF r.call[c].pc = "querying" /\ Len(r.call[c].served) = Len(r.call[c].msg)
      THEN [r EXCEPT !.call[c].pc = "done",
                     !.call[c].reply = IF r.call[c].kind = "Cmd"
                                         THEN CmdValue(r.call[c].served)
                                         ELSE PipeValue(r.call[c].served),
                     !.open = Release(@, r.call[c].conn)]
      ELSE r

RefQueryFail(r, c, e) ==
    IF r.call[c].pc = "querying"
      THEN [r EXCEPT !.call[c].pc = "done", !.call[c].reply = Failure(e),
                     !.open = Release(@, r.call[c].conn)]
      ELSE r

RefReceive(r, c) ==
    IF r.call[c].pc = "done" THEN [r EXCEPT !.call[c] = Outcome(Idle)] ELSE r

(***************************************************************************)
(* The handlers' futures, one action per await point.                      *)
(***************************************************************************)
\* The actor takes a message only when no earlier call is pending.
HandleCmdSerial(c, cmd) ==
    /\ phase = "started"
    /\ call[c].pc = "idle"
    /\ \A d \in CallIds : call[d].pc \notin {"connecting", "querying"}
    /\ call' = [call EXCEPT ![c] = Dispatch("Cmd", <<cmd>>)]
    /\ ref' = RefHandle(ref, c, "Cmd", <<cmd>>)
    /\ UNCHANGED <<cfg, phase, client, store, open, probes, obs>>

\* Handler<Cmd>::handle
HandleCmd(c, cmd) ==
    /\ phase = "started"
    /\ call[c].pc = "idle"
    /\ call' = [call EXCEPT ![c] = Dispatch("Cmd", <<cmd>>)]
    /\ ref' = RefHandle(ref, c, "Cmd", <<cmd>>)
    /\ UNCHANGED <<cfg, phase, client, store, open, probes, obs>>

\* Handler<Pipe>::handle
HandlePipe(c, rpipe) ==
    /\ phase = "started"
    /\ call[c].pc = "idle"
    /\ call' = [call EXCEPT ![c] = Dispatch("Pipe", PipeLine(rpipe))]
    /\ ref' = RefHandle(ref, c, "Pipe", PipeLine(rpipe))
    /\ UNCHANGED <<cfg, phase, client, store, open, probes, obs>>

\* get_async_connection() resolves to a connection: .and_then goes on to
\* query_async.
ConnectOk(c) ==
    /\ call[c].pc = "connecting"
    /\ call' = [call EXCEPT ![c].pc = "querying", ![c].conn = FreshConn(open),
                            ![c].issued = @ + 1]
    /\ open' = open \cup {FreshConn(open)}
    /\ ref' = RefConnectOk(ref, c)
    /\ ObsSuccess
    /\ UNCHANGED <<cfg, phase, client, store, probes>>

\* A failed get_async_connection() is tried once more before the caller
\* gets the Err.
ConnectFailRetry(c, e) ==
    /\ call[c].pc = "connecting"
    /\ call' = IF call[c].attempts < 2
                 THEN [call EXCEPT ![c].attempts = @ + 1]
                 ELSE [call EXCEPT ![c].pc = "done", ![c].reply = Failure(e),
                                   ![c].fault = e, ![c].failedAt = "connection",
                                   ![c].delivered = @ + 1]
    /\ ref' = RefConnectFail(ref, c, e)
    /\ ObsFailure(c)
    /\ UNCHANGED <<cfg, phase, client, store, open, probes>>

\* get_async_connection() fails: both and_then are skipped, map_err turns
\* the RedisError into the Error, the caller gets Err.
ConnectFail(c, e) ==
    /\ call[c].pc = "connecting"
    /\ call' = [call EXCEPT ![c].pc = "done", ![c].reply = Failure(e),
                            ![c].fault = e, ![c].failedAt = "connection",
                            ![c].delivered = @ + 1]
    /\ ref' = RefConnectFail(ref, c, e)
    /\ ObsFailure(c)
    /\ UNCHANGED <<cfg, phase, client, store, open, probes>>

\* The server serves the next command of the call's query.
StoreExec(c) ==
    /\ call[c].pc = "querying"
    /\ Len(call[c].served) < Len(call[c].msg)
    /\ LET cmd == call[c].msg[Len(call[c].served) + 1]
       IN  /\ call' = [call EXCEPT ![c].served =
                          Append(@, [cmd |-> cmd, reply |-> StoreReply(store, cmd),
                                     conn |-> QueryOn(c)])]
           /\ store' = StoreNext(store, cmd)
    /\ ref' = RefStoreExec(ref, c)
    /\ UNCHANGED <<cfg, phase, client, open, probes, obs>>

\* query_async resolves once every reply is in: the caller gets Ok(value).
QueryOk(c) ==
    /\ call[c].pc = "querying"
    /\ Len(call[c].served) = Len(call[c].msg)
    /\ call' = [call EXCEPT ![c].pc = "done",
                            ![c].reply = IF call[c].kind = "Cmd"
                                           THEN CmdValue(call[c].served)
                                           ELSE PipeValue(call[c].served),
                            ![c].delivered = @ + 1]
    /\ open' = Release(open, call[c].conn)
    /\ ref' = RefQueryOk(ref, c)
    /\ ObsSuccess
    /\ UNCHANGED <<cfg, phase, client, store, probes>>

\* query_async fails (the server rejects the query, or the socket fails):
\* map_err turns the RedisError into the Error, the caller gets Err.
QueryFail(c, e) ==
    /\ call[c].pc = "querying"
    /\ call' = [call EXCEPT ![c].pc = "done", ![c].reply = Failure(e),
                            ![c].fault = e, ![c].failedAt = "execution",
                            ![c].delivered = @ + 1]
    /\ open' = Release(open, call[c].conn)
    /\ ref' = RefQueryFail(ref, c, e)
    /\ ObsFailure(c)
    /\ UNCHANGED <<cfg, phase, client, store, probes>>

\* The caller's addr.send(..).await returns the reply; the caller may send
\* again.
Receive(c) ==
    /\ call[c].pc = "done"
    /\ call' = [call EXCEPT ![c] = Idle]
    /\ ref' = RefReceive(ref, c)
    /\ UNCHANGED <<cfg, phase, client, store, open, probes, obs>>

\* Time passes.  Only the observer's age changes, and it is kept only
\* while the threshold is reached.
Tick ==
    /\ phase = "started"
    /\ Tripped(Snapshot)
    /\ sinceFail < MaxDur
    /\ sinceFail' = sinceFail + 1
    /\ UNCHANGED <<cfg, phase, client, call, store, open, probes, failures, trialFailed,
                   burst, ref>>

(***************************************************************************)
(* Specifications.                                                         *)
(***************************************************************************)
\* RedisActor::build(): a builder holding RedisConfig::default().
Init ==
    /\ cfg = RedisConfigDefault
    /\ phase = "building"
    /\ client = "none"
    /\ call = [c \in CallIds |-> Idle]
    /\ store = FALSE
    /\ open = {}
    /\ probes = 0
    /\ failures = 0
    /\ sinceFail = 0
    /\ trialFailed = FALSE
    /\ burst = FALSE
    /\ ref = RefInit

\* The callers send PING as a Cmd or as a one-command pipeline; a failure is
\* one of the connection's or of the query's.
Ping ==
    \/ \E c \in CallIds : HandleCmd(c, "PING")
    \/ \E c \in CallIds : HandlePipe(c, <<"PING">>)
    \/ \E c \in CallIds : ConnectOk(c)
    \/ \E c \in CallIds : ConnectFail(c, CHOOSE e \in ConnErrors : TRUE)
    \/ \E c \in CallIds : StoreExec(c)
    \/ \E c \in CallIds : QueryOk(c)
    \/ \E c \in CallIds : QueryFail(c, CHOOSE e \in ExecErrors : TRUE)
    \/ \E c \in CallIds : Receive(c)

\* The breaker's settings in any order and any number of times, then start
\* on the default address, then calls while time passes.
Next ==
    \/ use_breaker
    \/ \E min \in Durations, max \in Durations : exponential_backoff(min, max)
    \/ \E count \in Thresholds : errors_threshold(count)
    \/ start
    \/ Ping
    \/ Tick

Spec == Init /\ [][Next]_vars

\* A builder on which use_breaker is never called.
NextNoBreaker ==
    \/ \E min \in Durations, max \in Durations : exponential_backoff(min, max)
    \/ \E count \in Thresholds : errors_threshold(count)
    \/ start
    \/ Ping

SpecNoBreaker == Init /\ [][NextNoBreaker]_vars

\* The configuration of the crate's tests, RedisActor::build().start();
\* every command, every pipeline, every failure.
NextDefault ==
    \/ start
    \/ \E c \in CallIds, cmd \in Commands : HandleCmd(c, cmd)
    \/ \E c \in CallIds, rpipe \in Pipelines : HandlePipe(c, rpipe)
    \/ \E c \in CallIds : ConnectOk(c)
    \/ \E c \in CallIds, e \in ConnErrors : ConnectFail(c, e)
    \/ \E c \in CallIds : StoreExec(c)
    \/ \E c \in CallIds : QueryOk(c)
    \/ \E c \in CallIds, e \in ExecErrors : QueryFail(c, e)
    \/ \E c \in CallIds : Receive(c)

SpecDefault == Init /\ [][NextDefault]_vars

\* Every setter of the builder in any order and any number of times (the
\* backoff bounds in order, equal, or out of order), start on whatever
\* address was set, then calls.
NextStart ==
    \/ use_breaker
    \/ \E min \in Durations : exponential_backoff(min, MaxDur - min)
    \/ \E count \in Thresholds : errors_threshold(count)
    \/ use_connection_probe
    \/ \E arg \in Uris : set_uri(arg)
    \/ start
    \/ Ping

SpecStart == Init /\ [][NextStart]_vars

\* The arbiter polls every spawned future, and the network and the server
\* end every connection attempt and every query, one way or the other.
Connects(c) == ConnectOk(c) \/ \E e \in ConnErrors : ConnectFail(c, e)
Queries(c) == StoreExec(c) \/ QueryOk(c) \/ \E e \in ExecErrors : QueryFail(c, e)

SpecFair ==
    /\ SpecDefault
    /\ \A c \in CallIds : WF_vars(Connects(c)) /\ WF_vars(Queries(c))


(***************************************************************************)
(* Vocabulary of the properties.                                           *)
(***************************************************************************)
Submitted(c) == call[c].pc # "idle"
InFlight(c) == call[c].pc \in {"connecting", "querying"}
Done(c) == call[c].pc = "done"
\* The call was turned away: no connection was asked for, and its answer,
\* once given, is an error that no connection or query failure stands
\* behind (the CircuitOpen answer).
Rejected(c) ==
    /\ call[c].attempts = 0
    /\ Done(c) => ~call[c].reply.ok /\ call[c].fault = NoError

(***************************************************************************)
(* C1.  Breaker activation: with the breaker enabled and threshold k >= 1, *)
(* a call submitted right after the k-th consecutive failure (no time has  *)
(* passed, and the cooldown is at least one tick) is answered with         *)
(* CircuitOpen and no connection acquisition is attempted for it.          *)
(***************************************************************************)
C1_BreakerActivation ==
    \A c \in CallIds :
        ( /\ Submitted(c)
          /\ Tripped(call[c].seen)
          /\ call[c].seen.failures = cfg.errors_threshold
          /\ call[c].seen.sinceFail = 0
          /\ backoff_min >= 1 )
        => Rejected(c)

(***************************************************************************)
(* C2.  Fast-fail while open: a call submitted while the circuit is open   *)
(* and the cooldown has not elapsed attempts no connection and does not    *)
(* succeed.                                                                *)
(***************************************************************************)
C2_FastFailWhileOpen ==
    \A c \in CallIds :
        (Submitted(c) /\ CooldownRunning(call[c].seen))
        => /\ call[c].attempts = 0
           /\ ~(Done(c) /\ call[c].reply.ok)

(***************************************************************************)
(* C3.  Breaker disabled is a pass-through: built without use_breaker,     *)
(* every submitted call has asked for a connection exactly once, whatever  *)
(* failed before it, and no call is answered with an error that no         *)
(* connection or query failure stands behind (none is turned away).        *)
(***************************************************************************)
C3_DisabledPassThrough ==
    ~cfg.use_breaker =>
        \A c \in CallIds :
            Submitted(c) =>
                /\ call[c].attempts = 1
                /\ ~(Done(c) /\ ~call[c].reply.ok /\ call[c].fault = NoError)

\* A threshold is configured and has been reached by consecutive failures,
\* the breaker is not enabled, and a call submitted after that is connecting.
C3_Witness ==
    /\ phase = "started"
    /\ ~cfg.use_breaker
    /\ cfg.errors_threshold >= 1
    /\ \E c \in CallIds :
          /\ call[c].pc = "connecting"
          /\ call[c].seen.failures >= cfg.errors_threshold
          /\ call[c].attempts = 1

(***************************************************************************)
(* C4.  Half-open admits one trial: of the calls submitted after the       *)
(* cooldown has elapsed and before any of them completes, at most one is   *)
(* attempting a connection.                                                *)
(***************************************************************************)
HalfOpenTrials ==
    {c \in CallIds : InFlight(c) /\ CooldownElapsed(call[c].seen) /\ call[c].attempts >= 1}

C4_HalfOpenOneTrial == Cardinality(HalfOpenTrials) <= 1

(***************************************************************************)
(* C5.  Recovery: while the failure counter is zero (at the start, and     *)
(* after a successful trial) every call attempts a connection; after a     *)
(* failed trial the circuit is open again, so a call submitted right after *)
(* it (no time has passed, the cooldown is at least one tick) attempts no  *)
(* connection.                                                             *)
(***************************************************************************)
C5_RecoveryClosesCircuit ==
    \A c \in CallIds :
        /\ (Submitted(c) /\ BreakerOn /\ call[c].seen.failures = 0)
           => call[c].attempts = 1
        /\ ( /\ Submitted(c)
             /\ call[c].seen.trialFailed
             /\ call[c].seen.sinceFail = 0
             /\ backoff_min >= 1 )
           => call[c].attempts = 0

(***************************************************************************)
(* C6.  Backoff doubles within its bounds: the cooldown that follows a     *)
(* failed trial is min(2 * backoff_min, backoff_max), so a call submitted  *)
(* when backoff_min has passed since that failure but the doubled cooldown *)
(* has not attempts no connection.                                         *)
(***************************************************************************)
GrownCooldown == Min(2 * backoff_min, backoff_max)

C6_BackoffGrowth ==
    \A c \in CallIds :
        ( /\ Submitted(c)
          /\ call[c].seen.trialFailed
          /\ call[c].seen.sinceFail >= backoff_min
          /\ call[c].seen.sinceFail < GrownCooldown )
        => call[c].attempts = 0

(***************************************************************************)
(* C7.  Batch ordering: a Pipe call that succeeded on a batch of N         *)
(* commands returns a Bulk of exactly N items, the server served the       *)
(* batch's commands in their order, and item i is the reply the server     *)
(* gave to command i; a one-command PING pipeline returns <<"PONG">>.      *)
(***************************************************************************)
C7_BatchOrdering ==
    \A c \in CallIds :
        (Done(c) /\ call[c].kind = "Pipe" /\ call[c].reply.ok) =>
            /\ call[c].reply.bulk
            /\ Len(call[c].reply.items) = Len(call[c].msg)
            /\ Len(call[c].served) = Len(call[c].msg)
            /\ \A i \in 1..Len(call[c].msg) :
                  /\ call[c].served[i].cmd = call[c].msg[i]
                  /\ call[c].reply.items[i] = call[c].served[i].reply
            /\ call[c].msg = <<"PING">> => call[c].reply.items = <<"PONG">>

\* A two-command batch whose replies differ by position came back in order,
\* and an empty batch came back empty.
C7_Witness ==
    \E c, d \in CallIds :
        /\ Done(c) /\ call[c].kind = "Pipe" /\ call[c].reply.ok
        /\ call[c].msg = <<"SETNX", "SETNX">>
        /\ call[c].reply.items = <<":1", ":0">>
        /\ Done(d) /\ call[d].kind = "Pipe" /\ call[d].reply.ok
        /\ call[d].msg = <<>>
        /\ call[d].reply.items = <<>>

(***************************************************************************)
(* C8.  Single-command round trip: a Cmd call that succeeded returns       *)
(* exactly the one reply the server gave to its command, unchanged; PING   *)
(* yields PONG.                                                            *)
(***************************************************************************)
C8_CmdRoundTrip ==
    \A c \in CallIds :
        (Done(c) /\ call[c].kind = "Cmd" /\ call[c].reply.ok) =>
            /\ ~call[c].reply.bulk
            /\ Len(call[c].served) = 1
            /\ call[c].served[1].cmd = call[c].msg[1]
            /\ call[c].reply.items = <<call[c].served[1].reply>>
            /\ call[c].msg = <<"PING">> => call[c].reply.items = <<"PONG">>

\* PING came back as PONG, and a SETNX on a key another call had set came
\* back as 0.
C8_Witness ==
    \E c, d \in CallIds :
        /\ Done(c) /\ call[c].kind = "Cmd" /\ call[c].reply.ok
        /\ call[c].msg = <<"PING">> /\ call[c].reply.items = <<"PONG">>
        /\ Done(d) /\ call[d].kind = "Cmd" /\ call[d].reply.ok
        /\ call[d].msg = <<"SETNX">> /\ call[d].reply.items = <<":0">>

(***************************************************************************)
(* C9.  Every call yields exactly one typed outcome: a call is answered at *)
(* most once, and exactly once when its future has ended; the answer is an *)
(* Err carrying the failure's description exactly when a connection or     *)
(* query failure occurred, and a value otherwise; the actor stays started  *)
(* whatever fails; and, connection attempts and queries always ending,     *)
(* every submitted call is eventually answered.                            *)
(***************************************************************************)
OneTypedOutcome(c) ==
    /\ call[c].delivered <= 1
    /\ InFlight(c) => call[c].delivered = 0
    /\ Done(c) =>
          /\ call[c].delivered = 1
          /\ call[c].reply.ok <=> call[c].fault = NoError
          /\ ~call[c].reply.ok =>
                /\ call[c].reply.err = call[c].fault.description
                /\ call[c].reply.err # ""
                /\ call[c].reply.items = <<>>

C9_OneTypedOutcome ==
    /\ [](\A c \in CallIds : OneTypedOutcome(c))
    /\ [][phase = "started" => phase' = "started"]_vars
    /\ \A c \in CallIds : InFlight(c) ~> Done(c)

\* One call was answered with an Err after a failed connection attempt, and
\* a two-command pipeline was answered with a value.
C9_Witness ==
    \E c, d \in CallIds :
        /\ Done(c) /\ ~call[c].reply.ok /\ call[c].failedAt = "connection"
        /\ call[c].delivered = 1
        /\ Done(d) /\ call[d].reply.ok /\ call[d].delivered = 1
        /\ call[d].kind = "Pipe" /\ Len(call[d].msg) = 2

(***************************************************************************)
(* C10.  Error kinds are distinguishable: the answer to a call whose       *)
(* connection acquisition failed is never the same as the answer to a call *)
(* whose query failed on an acquired connection.                           *)
(***************************************************************************)
C10_ErrorKindsDistinct ==
    \A c, d \in CallIds :
        ( /\ Done(c) /\ call[c].failedAt = "connection"
          /\ Done(d) /\ call[d].failedAt = "execution" )
        => call[c].reply # call[d].reply

(***************************************************************************)
(* C11.  Exactly-once issue, no internal retry: for one call the actor     *)
(* asks for a connection at most once and issues the query at most once,   *)
(* whatever fails; the server is given each command of the message at most *)
(* once, in the message's order; a failed call is answered, not retried.   *)
(***************************************************************************)
C11_ExactlyOnce ==
    \A c \in CallIds :
        /\ call[c].attempts <= 1
        /\ call[c].issued <= call[c].attempts
        /\ Submitted(c) => call[c].attempts = 1
        /\ Len(call[c].served) <= Len(call[c].msg)
        /\ \A i \in 1..Len(call[c].served) : call[c].served[i].cmd = call[c].msg[i]
        /\ call[c].fault # NoError => Done(c)

\* One call was answered after its only connection attempt failed, and a
\* two-command pipeline was answered after its query failed with one
\* command served: neither was tried again.
C11_Witness ==
    \E c, d \in CallIds :
        /\ Done(c) /\ call[c].failedAt = "connection"
        /\ call[c].attempts = 1 /\ call[c].issued = 0
        /\ Done(d) /\ call[d].failedAt = "execution"
        /\ call[d].attempts = 1 /\ call[d].issued = 1
        /\ Len(call[d].msg) = 2 /\ Len(call[d].served) = 1

(***************************************************************************)
(* C12.  Invalid address fails startup before any I/O: start() on a        *)
(* builder whose address is not a valid one returns the error, no actor is *)
(* started (no client is kept, no call is ever taken) and no connection    *)
(* attempt is made; start() on a valid address with probing off returns    *)
(* the running actor, its client opened on that address, without a         *)
(* connection attempt.                                                     *)
(***************************************************************************)
C12_InvalidUriFailsStartup ==
    /\ cfg.redis_uri = BadUri => phase # "started"
    /\ phase = "failed" =>
          /\ cfg.redis_uri = BadUri
          /\ client = "none"
          /\ probes = 0 /\ open = {}
          /\ \A c \in CallIds : call[c] = Idle
    /\ (phase = "started" /\ ~cfg.connection_probe) =>
          /\ cfg.redis_uri \in {DefaultUri, OtherUri}
          /\ client = cfg.redis_uri
          /\ probes = 0

\* start() returned the error on the invalid address, on a builder that
\* asked for the probe and the breaker, and nothing was connected.
C12_Witness ==
    /\ phase = "failed"
    /\ cfg.redis_uri = BadUri
    /\ cfg.connection_probe /\ cfg.use_breaker
    /\ client = "none" /\ probes = 0

(***************************************************************************)
(* C13.  Probing fails fast: a running actor built with connection probing *)
(* enabled was returned only after start() made an initial connection      *)
(* attempt.                                                                *)
(***************************************************************************)
C13_ProbingFailsFast ==
    (phase = "started" /\ cfg.connection_probe) => probes >= 1

(***************************************************************************)
(* C14.  No lost updates: when two or more calls that were pending         *)
(* together have failed one after the other (breaker enabled, every one of *)
(* them submitted while the failure count was zero), the count reflects    *)
(* all of them, so with the threshold reached the circuit is open: a call  *)
(* submitted right after them (no time has passed, the cooldown is at      *)
(* least one tick) is turned away.                                         *)
(***************************************************************************)
C14_NoLostFailures ==
    \A c \in CallIds :
        ( /\ Submitted(c)
          /\ burst
          /\ Tripped(call[c].seen)
          /\ call[c].seen.failures >= 2
          /\ call[c].seen.sinceFail = 0
          /\ backoff_min >= 1 )
        => Rejected(c)

(***************************************************************************)
(* C15.  Calls are not serialized: while a call is waiting for its         *)
(* connection or for its query, every other slot can take its next step    *)
(* (a message is accepted, a connection attempt resolves, the server       *)
(* serves the next command, the query resolves); two pending calls can     *)
(* complete in either order.                                               *)
(***************************************************************************)
C15_NotSerialized ==
    \A c, d \in CallIds :
        (c # d /\ InFlight(c)) =>
            /\ call[d].pc = "idle" =>
                  /\ ENABLED HandleCmd(d, "PING")
                  /\ ENABLED HandlePipe(d, <<"PING">>)
            /\ call[d].pc = "connecting" => ENABLED ConnectOk(d)
            /\ (call[d].pc = "querying" /\ Len(call[d].served) < Len(call[d].msg))
                  => ENABLED StoreExec(d)
            /\ (call[d].pc = "querying" /\ Len(call[d].served) = Len(call[d].msg))
                  => ENABLED QueryOk(d)

\* Two calls are pending with their queries served; either can complete
\* first.
C15_Witness ==
    \E c, d \in CallIds :
        /\ c # d
        /\ call[c].pc = "querying" /\ call[d].pc = "querying"
        /\ call[c].msg = <<"SETNX">> /\ call[d].msg = <<"DEL", "SETNX">>
        /\ ENABLED QueryOk(c)
        /\ ENABLED QueryOk(d)

(***************************************************************************)
(* C16.  Connections are per-call and always released: every open          *)
(* connection is held by exactly one call, a call whose query is pending;  *)
(* a pending query holds a connection; a call that has completed, with a   *)
(* value or an error, holds none, so with no call pending no connection is *)
(* open.                                                                   *)
(***************************************************************************)
Holders(i) == {c \in CallIds : call[c].pc = "querying" /\ call[c].conn = i}

C16_ConnectionsReleased ==
    /\ \A i \in open : Cardinality(Holders(i)) = 1
    /\ \A c \in CallIds : call[c].pc = "querying" => call[c].conn \in open
    /\ \A c \in CallIds : call[c].pc \in {"idle", "connecting"} => call[c].conn = 0
    /\ (\A c \in CallIds : ~InFlight(c)) => open = {}

\* One call completed with an execution error on the connection it had
\* acquired, another with a value, and no connection is open.
C16_Witness ==
    \E c, d \in CallIds :
        /\ Done(c) /\ call[c].failedAt = "execution" /\ call[c].conn # 0
        /\ Done(d) /\ call[d].reply.ok /\ call[d].conn # 0
        /\ open = {}

(***************************************************************************)
(* C17.  Configuration invariant: every running actor was built from a     *)
(* configuration with backoff_min <= backoff_max.                          *)
(***************************************************************************)
C17_BackoffOrdered ==
    phase = "started" => backoff_min <= backoff_max

(***************************************************************************)
(* C18.  Zero threshold disables the breaker: built with the breaker       *)
(* enabled and errors_threshold 0, every submitted call has asked for a    *)
(* connection, however many calls failed before it, and no call is         *)
(* answered with an error that no connection or query failure stands       *)
(* behind (none is turned away).                                           *)
(***************************************************************************)
C18_ZeroThresholdNeverRejects ==
    (cfg.use_breaker /\ cfg.errors_threshold = 0) =>
        \A c \in CallIds :
            Submitted(c) =>
                /\ call[c].attempts = 1
                /\ ~(Done(c) /\ ~call[c].reply.ok /\ call[c].fault = NoError)

\* The breaker is enabled with threshold 0, two or more calls have failed
\* in a row, and a call submitted after them is connecting.
C18_Witness ==
    /\ phase = "started"
    /\ cfg.use_breaker
    /\ cfg.errors_threshold = 0
    /\ \E c \in CallIds :
          /\ call[c].pc = "connecting"
          /\ call[c].seen.failures >= 2
          /\ call[c].attempts = 1

(***************************************************************************)
(* C19.  Short-circuit on acquisition failure: a call whose connection     *)
(* acquisition failed issued no query, nothing of its message reached the  *)
(* server, and its answer is the acquisition's error; a query is issued    *)
(* only with a connection acquired, and every command the server serves    *)
(* for a call arrives on the connection that call acquired.                *)
(***************************************************************************)
C19_ShortCircuit ==
    \A c \in CallIds :
        /\ call[c].failedAt = "connection" =>
              /\ Done(c)
              /\ call[c].issued = 0
              /\ call[c].served = <<>>
              /\ call[c].conn = 0
              /\ call[c].fault \in ConnErrors
              /\ call[c].reply = Failure(call[c].fault)
        /\ call[c].issued >= 1 => call[c].conn # 0
        /\ \A i \in 1..Len(call[c].served) :
              /\ call[c].issued = 1
              /\ call[c].served[i].conn = call[c].conn

\* A two-command pipeline was answered with the acquisition's error while
\* another call's command had been served on its own connection.
C19_Witness ==
    \E c, d \in CallIds :
        /\ Done(c) /\ call[c].failedAt = "connection"
        /\ call[c].kind = "Pipe" /\ Len(call[c].msg) = 2
        /\ call[c].served = <<>>
        /\ call[d].pc = "querying" /\ call[d].msg = <<"SETNX">>
        /\ Len(call[d].served) = 1 /\ store

(***************************************************************************)
(* C20.  Resilience settings do not influence dispatch: the actor and the  *)
(* second actor, built on the same address with the default use_breaker,   *)
(* exponential_backoff, errors_threshold and connection_probe and stepped  *)
(* together with it, have the same startup result, the same state and      *)
(* answer of every call, and leave the same server state and connections.  *)
(* (Two actors that each agree with the default one agree with each        *)
(* other.)                                                                 *)
(***************************************************************************)
C20_ResilienceBlind ==
    /\ ref.cfg = [RedisConfigDefault EXCEPT !.redis_uri = cfg.redis_uri]
    /\ ref.phase = phase
    /\ ref.client = client
    /\ \A c \in CallIds : ref.call[c] = Outcome(call[c])
    /\ ref.store = store
    /\ ref.open = open

\* Every resilience setting differs from the default, the address was set,
\* and both actors answered one call with a connection error and one with a
\* value.
C20_Witness ==
    /\ phase = "started" /\ ref.phase = "started"
    /\ cfg.redis_uri = OtherUri
    /\ cfg.use_breaker /\ cfg.connection_probe
    /\ cfg.errors_threshold >= 1
    /\ cfg.exponential_backoff = <<MaxDur, 0>>
    /\ ~ref.cfg.use_breaker /\ ~ref.cfg.connection_probe
    /\ \E c, d \in CallIds :
          /\ Done(c) /\ call[c].failedAt = "connection"
          /\ ref.call[c].reply = call[c].reply
          /\ Done(d) /\ call[d].reply.ok
          /\ ref.call[d].reply = call[d].reply

=============================================================================
